---- MODULE Spec2Model ----
(***************************************************************************)
(* Model of qola.py: the query builder Q, its six fragment accumulators,   *)
(* the Table descriptor and the assembler in Database.                      *)
(*                                                                         *)
(* A Python string is a sequence of atoms.  An atom is a lexeme ("users",  *)
(* "SELECT", "?") or a single character (" ", ",", "(").  Concatenation    *)
(* and '%s' formatting are sequence concatenation, str.join interleaves    *)
(* the separator, str.strip and str.rjust work on the atoms of an alias,   *)
(* which are single characters.                                            *)
(***************************************************************************)
EXTENDS Integers, Sequences, FiniteSets, TLC

\* the builder: Q.table and the lists and the dict of its six accumulators
VARIABLES table, cols, joins, clauses, params, orders, limits, items
\* ret: what the last call of assemble returned or raised, as the caller holds it
VARIABLE ret
\* history of the calls made on the builder: op is the last call ("key", "call"
\* for another builder method, "assemble", or "reassemble" for an assemble
\* that directly follows an assemble of the same mode), calls counts all
\* calls, called is the set of method names called, nwhere and nset count
\* Clauser.add and Setter.add calls, setKeys is the set of keys passed to
\* set and keyOrder lists them in the order they were first set, joinLog
\* lists the arguments of the join calls, nlimit counts the limit calls and
\* lastLimit is the argument list of the last one
VARIABLES op, calls, called, nwhere, nset, setKeys, keyOrder, joinLog,
          nlimit, lastLimit
\* the Database: con is self._con ("None", "open" or "closed"), conId names
\* the connection object it holds (the number of the connect call that made
\* it, 0 for none), nconnect counts the calls of the driver's connect,
\* ncommit and nrollback the commits and rollbacks done on the connection,
\* last describes the last call made on the Database, dbcalls counts them
VARIABLES con, conId, nconnect, ncommit, nrollback, last, dbcalls

builder == <<table, cols, joins, clauses, params, orders, limits, items>>
qvars == <<table, cols, joins, clauses, params, orders, limits, items,
           ret, op, calls, called, nwhere, nset, setKeys, keyOrder, joinLog,
           nlimit, lastLimit>>
dbvars == <<con, conId, nconnect, ncommit, nrollback, last, dbcalls>>
vars == <<qvars, dbvars>>

(* ------------------------------ bounds -------------------------------- *)
MaxCalls == 4
MaxSelectCalls == 6
MaxDbCalls == 3

(* ------------------------------ inputs -------------------------------- *)
None == "<None>"
SP == <<" ">>
QM == <<"?">>

Tables == { [name |-> <<"users">>, pk |-> <<"id">>, alias |-> a] : a \in {<<>>, <<"u">>} }
JoinTable(a) == [name |-> <<"orders">>, pk |-> <<"oid">>, alias |-> a]
JoinOn == <<"o.uid", " ", "=", " ", "u.id">>
JoinArgs == { [tbl |-> JoinTable(<<>>), outer |-> FALSE],
              [tbl |-> JoinTable(<<"o">>), outer |-> TRUE],
              [tbl |-> JoinTable(<<" ", "o", " ">>), outer |-> FALSE],
              [tbl |-> JoinTable(<<" ">>), outer |-> TRUE] }

Scalar(v) == [list |-> FALSE, val |-> v]
List(v) == [list |-> TRUE, val |-> v]

SelectArgs == { [cols |-> Scalar(<<"id">>), alias |-> <<>>],
                [cols |-> List(<<>>), alias |-> <<>>],
                [cols |-> List(<< <<"id">>, <<"name">> >>), alias |-> <<"u">>] }
WhereArgs == { [clause |-> <<"age", " ", ">", " ", "?">>, params |-> Scalar("18"),
                is_or |-> FALSE],
               [clause |-> <<"nick", " ", "=", " ", "?">>, params |-> Scalar(""),
                is_or |-> TRUE],
               [clause |-> <<"n", " ", "IN", " ", "(", "?", ",", "?", ")">>,
                params |-> List(<<"1", "">>), is_or |-> FALSE] }
KeyArgs == { "7" }
OrderArgs == { Scalar(<<"name">>), List(<< <<"a">>, <<"b">> >>), List(<<>>) }
LimitArgs == { Scalar(10), List(<<0, 5>>), List(<<>>) }
Keys == { <<"name">>, <<"email">> }
Plain(v) == [expr |-> FALSE, val |-> v]
Values == { Plain("Alice"), Plain(""),
            [expr |-> TRUE, value |-> <<"NOW()">>, params |-> <<>>],
            [expr |-> TRUE, value |-> <<"n", " ", "+", " ", "?", " ", "*", " ", "?">>,
             params |-> <<"1", "">>] }
Modes == { "select", "insert", "update", "delete" }
ModeArgs == Modes \cup { "upsert" }

(* ------------------------------ strings ------------------------------- *)
RECURSIVE join(_, _)
join(sep, list) ==
    IF list = <<>> THEN <<>>
    ELSE IF Len(list) = 1 THEN list[1]
    ELSE list[1] \o sep \o join(sep, Tail(list))

RECURSIVE lstrip(_)
lstrip(s) == IF s # <<>> /\ Head(s) = " " THEN lstrip(Tail(s)) ELSE s

RECURSIVE rstrip(_)
rstrip(s) == IF s # <<>> /\ s[Len(s)] = " " THEN rstrip(SubSeq(s, 1, Len(s) - 1)) ELSE s

strip(s) == rstrip(lstrip(s))

RECURSIVE rjust(_, _)
rjust(s, width) == IF Len(s) >= width THEN s ELSE rjust(SP \o s, width)

str(v) == << ToString(v) >>

to_list(val) == IF val.list THEN val.val ELSE << val.val >>

(* ------------------------------- Table -------------------------------- *)
identifier(tbl) ==
    LET alias == IF tbl.alias # <<>> THEN rjust(strip(tbl.alias), 1) ELSE <<>>
    IN  tbl.name \o alias

(* ---------------------------- accumulators ---------------------------- *)
Selector__call__always_star(c) == << <<"*">> >> \o c

Selector__call__(c) == IF c # <<>> THEN c ELSE << <<"*">> >>

SelectorAdd(c, newcols, alias) ==
    LET l == to_list(newcols)
        q == IF alias # <<>> THEN [i \in 1..Len(l) |-> alias \o <<".">> \o l[i]] ELSE l
    IN  c \o q

JoinerAdd_with_condition(j, tbl, join_on, outer) ==
    LET join_type == IF outer THEN <<"OUTER">> ELSE <<"INNER">>
    IN  j \o << join_type, <<"JOIN">>, identifier(tbl), <<"ON">>, join_on >>

JoinerAdd(j, tbl, join_on, outer) ==
    LET join_type == IF outer THEN <<"OUTER">> ELSE <<"INNER">>
    IN  j \o << join_type, <<"JOIN">>, identifier(tbl) >>

ClauserAddClauses_always_operator(cl, clause, is_or) ==
    LET operator == IF is_or THEN <<"OR">> ELSE <<"AND">>
    IN  Append(Append(cl, operator), clause)

ClauserAddClauses(cl, clause, is_or) ==
    LET operator == IF is_or THEN <<"OR">> ELSE <<"AND">>
        withOp == IF cl # <<>> THEN Append(cl, operator) ELSE cl
    IN  Append(withOp, clause)

ClauserAddParams(p, newparams) == p \o to_list(newparams)

OrdererAdd(o, order) == o \o to_list(order)

LimiterAdd_extending(l, newlimits) ==
    LET t == to_list(newlimits) IN l \o [i \in 1..Len(t) |-> str(t[i])]

LimiterAdd(l, newlimits) ==
    LET t == to_list(newlimits) IN [i \in 1..Len(t) |-> str(t[i])]

Expr(value, p) == [value |-> value, params |-> p]

HasKey(it, key) == \E i \in 1..Len(it) : it[i].key = key

SetterAdd_append(it, key, value, pos) ==
    LET param == IF value.expr THEN Expr(value.value, value.params)
                 ELSE Expr(QM, << value.val >>)
    IN  Append(it, [key |-> key, expr |-> param])

\* dict assignment: an existing key keeps its slot, a new key lands in the
\* slot its hash selects, which iteration may visit at any position pos
SetterAdd(it, key, value, pos) ==
    LET param == IF value.expr THEN Expr(value.value, value.params)
                 ELSE Expr(QM, << value.val >>)
        entry == [key |-> key, expr |-> param]
    IN  IF HasKey(it, key)
        THEN [i \in 1..Len(it) |-> IF it[i].key = key THEN entry ELSE it[i]]
        ELSE SubSeq(it, 1, pos - 1) \o << entry >> \o SubSeq(it, pos, Len(it))

(* ------------------------------ Database ------------------------------ *)
_list_null_identity(values) == values

_list_null(values) ==
    [i \in 1..Len(values) |-> IF values[i] = "" THEN None ELSE values[i]]

_select(c) == << <<"SELECT">>, join(<<",">>, c) >>

_from(parts, tbl) == parts \o << <<"FROM">>, identifier(tbl) >>

_join(parts, j) == IF j # <<>> THEN parts \o j ELSE parts

_where(parts, cl) == IF cl # <<>> THEN parts \o << <<"WHERE">>, join(SP, cl) >> ELSE parts

_order(parts, o) == IF o # <<>> THEN parts \o << <<"ORDER BY">>, join(<<",">>, o) >> ELSE parts

_limit(parts, l) == IF l # <<>> THEN parts \o << <<"LIMIT">>, join(<<",">>, l) >> ELSE parts

_insert_into_identifier(tbl, c) ==
    << <<"INSERT">>, <<"INTO">>, identifier(tbl), <<"(">> \o join(<<",">>, c) \o <<")">> >>

_insert(tbl, c) ==
    << <<"INSERT">>, <<"INTO">>, tbl.name, <<"(">> \o join(<<",">>, c) \o <<")">> >>

_values(parts, vals) ==
    parts \o << <<"VALUES">>, <<"(">> \o join(<<",">>, vals) \o <<")">> >>

_update(tbl) == << <<"UPDATE">>, identifier(tbl) >>

_set(parts, c) == parts \o << <<"SET">>, join(<<",">>, c) >>

_delete == << <<"DELETE">> >>

RECURSIVE extendParams(_)
extendParams(it) ==
    IF it = <<>> THEN <<>> ELSE Head(it).expr.params \o extendParams(Tail(it))

_build_select_limit_before_order(q) ==
    LET p1 == _select(Selector__call__(q.cols))
        p2 == _from(p1, q.table)
        p3 == _join(p2, q.joins)
        p4 == _where(p3, q.clauses)
        p5 == _limit(p4, q.limits)
        p6 == _order(p5, q.orders)
    IN  [sql |-> join(SP, p6), params |-> q.params, aliased |-> TRUE]

\* a build returns (sql, params); aliased tells whether the returned list
\* is the Clauser's own list object or a new list
_build_select(q) ==
    LET p1 == _select(Selector__call__(q.cols))
        p2 == _from(p1, q.table)
        p3 == _join(p2, q.joins)
        p4 == _where(p3, q.clauses)
        p5 == _order(p4, q.orders)
        p6 == _limit(p5, q.limits)
    IN  [sql |-> join(SP, p6), params |-> q.params, aliased |-> TRUE]

_build_insert(q) ==
    LET c == [i \in 1..Len(q.items) |-> q.items[i].key]
        vals == [i \in 1..Len(q.items) |-> QM]
        p == _list_null(extendParams(q.items))
        parts == _values(_insert(q.table, c), vals)
    IN  [sql |-> join(SP, parts), params |-> p, aliased |-> FALSE]

_build_update_clause_first(q) ==
    LET c == [i \in 1..Len(q.items) |->
                 q.items[i].key \o <<" ", "=", " ">> \o q.items[i].expr.value]
        vals == extendParams(q.items)
        p4 == _where(_join(_set(_update(q.table), c), q.joins), q.clauses)
        p == _list_null(q.params)
    IN  [sql |-> join(SP, p4), params |-> p \o vals, aliased |-> FALSE]

_build_update_normalizing_all(q) ==
    LET c == [i \in 1..Len(q.items) |->
                 q.items[i].key \o <<" ", "=", " ">> \o q.items[i].expr.value]
        vals == extendParams(q.items)
        p4 == _where(_join(_set(_update(q.table), c), q.joins), q.clauses)
    IN  [sql |-> join(SP, p4), params |-> _list_null(vals \o q.params),
         aliased |-> FALSE]

_build_update(q) ==
    LET c == [i \in 1..Len(q.items) |->
                 q.items[i].key \o <<" ", "=", " ">> \o q.items[i].expr.value]
        vals == extendParams(q.items)
        p1 == _update(q.table)
        p2 == _set(p1, c)
        p3 == _join(p2, q.joins)
        p4 == _where(p3, q.clauses)
        p == _list_null(q.params)
    IN  [sql |-> join(SP, p4), params |-> vals \o p, aliased |-> FALSE]

_build_delete(q) ==
    LET p1 == _from(_delete, q.table)
        p2 == _join(p1, q.joins)
        p3 == _where(p2, q.clauses)
    IN  [sql |-> join(SP, p3), params |-> q.params, aliased |-> TRUE]

Builders == { "_build_select", "_build_insert", "_build_update", "_build_delete" }

\* getattr(self, '_build_%s' % mode)(qry)
assemble(q, mode) ==
    LET name == "_build_" \o mode
        r == CASE name = "_build_select" -> _build_select(q)
               [] name = "_build_insert" -> _build_insert(q)
               [] name = "_build_update" -> _build_update(q)
               [] name = "_build_delete" -> _build_delete(q)
               [] OTHER -> [sql |-> <<>>, params |-> <<>>, aliased |-> FALSE]
    IN  IF name \in Builders
        THEN [status |-> "returned", error |-> "", looked |-> name, mode |-> mode,
              sql |-> r.sql, params |-> r.params, aliased |-> r.aliased]
        ELSE [status |-> "raised", error |-> "AttributeError", looked |-> name,
              mode |-> mode, sql |-> <<>>, params |-> <<>>, aliased |-> FALSE]

(* -------------------------- Database.query ---------------------------- *)
FetchModes == { "all", "one", "None" }
\* the step of a query at which the driver raises, "none" for no failure
FailPoints == { "none", "connect", "cursor", "execute", "fetch", "commit" }
\* the rows the statement yields
RowSets == { <<>>, <<"row1", "row2">> }

EmptyList == [kind |-> "list", rows |-> <<>>]
NoResult == [kind |-> "raised", rows |-> <<>>]
fetchall(rows) == [kind |-> "list", rows |-> rows]
fetchone(rows) ==
    IF rows = <<>> THEN [kind |-> "None", rows |-> <<>>]
    ELSE [kind |-> "row", rows |-> << rows[1] >>]

NoCall == [call |-> "none", fetch_mode |-> "None", fail |-> "none",
           outcome |-> "none", result |-> NoResult, commits |-> 0,
           rollbacks |-> 0, cursor |-> "none", conUsed |-> 0]

\* _connect: connect when there is no connection yet, then open a cursor;
\* a cursor cannot be opened on a closed connection
_connect(c, id, n, fail) ==
    LET connecting == c = "None"
        connected == ~connecting \/ fail # "connect"
        c1 == IF connecting /\ connected THEN "open" ELSE c
        id1 == IF connecting /\ connected THEN n + 1 ELSE id
    IN  [con |-> c1, conId |-> id1,
         nconnect |-> IF connecting THEN n + 1 ELSE n,
         cursor |-> connected /\ fail # "cursor" /\ c1 = "open"]

\* query: the connection and cursor are obtained before the try block, so
\* their failure propagates; a failure of execute, fetch or commit is caught
\* and answered by a rollback, and result keeps what a fetch assigned to it
query(c, id, n, fetch_mode, fail, rows) ==
    LET k == _connect(c, id, n, fail)
        executed == fail # "execute"
        fetched == executed /\ fail # "fetch"
        result == IF fetched /\ fetch_mode = "all" THEN fetchall(rows)
                  ELSE IF fetched /\ fetch_mode = "one" THEN fetchone(rows)
                  ELSE EmptyList
        committed == fetched /\ fail # "commit"
    IN  IF ~k.cursor
        THEN [con |-> k.con, conId |-> k.conId, nconnect |-> k.nconnect,
              outcome |-> "raised", result |-> NoResult, commits |-> 0,
              rollbacks |-> 0, cursor |-> "none"]
        ELSE [con |-> k.con, conId |-> k.conId, nconnect |-> k.nconnect,
              outcome |-> "returned", result |-> result,
              commits |-> IF committed THEN 1 ELSE 0,
              rollbacks |-> IF committed THEN 0 ELSE 1,
              cursor |-> "closed"]

Query ==
    \E fetch_mode \in FetchModes, fail \in FailPoints, rows \in RowSets :
        /\ fail = "connect" => con = "None"
        /\ fail = "fetch" => fetch_mode # "None"
        /\ con = "closed" => fail = "cursor"
        /\ LET r == query(con, conId, nconnect, fetch_mode, fail, rows)
           IN  /\ con' = r.con
               /\ conId' = r.conId
               /\ nconnect' = r.nconnect
               /\ ncommit' = ncommit + r.commits
               /\ nrollback' = nrollback + r.rollbacks
               /\ last' = [call |-> "query", fetch_mode |-> fetch_mode,
                           fail |-> fail,
                           outcome |-> r.outcome, result |-> r.result,
                           commits |-> r.commits, rollbacks |-> r.rollbacks,
                           cursor |-> r.cursor,
                           conUsed |-> IF r.con = "None" THEN 0 ELSE r.conId]
        /\ dbcalls' = dbcalls + 1

Close_forgetting_connection ==
    /\ con' = "None"
    /\ last' = [NoCall EXCEPT !.call = "close", !.outcome = "returned"]
    /\ dbcalls' = dbcalls + 1
    /\ UNCHANGED <<conId, nconnect, ncommit, nrollback>>

Close ==
    /\ con' = IF con # "None" THEN "closed" ELSE con
    /\ last' = [NoCall EXCEPT !.call = "close", !.outcome = "returned"]
    /\ dbcalls' = dbcalls + 1
    /\ UNCHANGED <<conId, nconnect, ncommit, nrollback>>

\* self._con.commit(): an AttributeError without a connection, the driver's
\* error on a closed one
Commit ==
    /\ ncommit' = IF con = "open" THEN ncommit + 1 ELSE ncommit
    /\ last' = [NoCall EXCEPT !.call = "commit",
                              !.outcome = IF con = "open" THEN "returned" ELSE "raised",
                              !.commits = IF con = "open" THEN 1 ELSE 0]
    /\ dbcalls' = dbcalls + 1
    /\ UNCHANGED <<con, conId, nconnect, nrollback>>

Rollback ==
    /\ nrollback' = IF con = "open" THEN nrollback + 1 ELSE nrollback
    /\ last' = [NoCall EXCEPT !.call = "rollback",
                              !.outcome = IF con = "open" THEN "returned" ELSE "raised",
                              !.rollbacks = IF con = "open" THEN 1 ELSE 0]
    /\ dbcalls' = dbcalls + 1
    /\ UNCHANGED <<con, conId, nconnect, ncommit>>

(* ------------------------------ the builder ---------------------------- *)
Qry == [table |-> table, cols |-> cols, joins |-> joins, clauses |-> clauses,
        params |-> params, orders |-> orders, limits |-> limits, items |-> items]

NoRet == [status |-> "none", error |-> "", looked |-> "", mode |-> "",
          sql |-> <<>>, params |-> <<>>, aliased |-> FALSE]

Init ==
    /\ table \in Tables
    /\ cols = <<>>
    /\ joins = <<>>
    /\ clauses = <<>>
    /\ params = <<>>
    /\ orders = <<>>
    /\ limits = <<>>
    /\ items = <<>>
    /\ ret = NoRet
    /\ op = "init"
    /\ calls = 0
    /\ called = {}
    /\ nwhere = 0
    /\ nset = 0
    /\ setKeys = {}
    /\ joinLog = <<>>
    /\ lastLimit = <<>>
    /\ nlimit = 0
    /\ keyOrder = <<>>
    /\ con = "None"
    /\ conId = 0
    /\ nconnect = 0
    /\ ncommit = 0
    /\ nrollback = 0
    /\ last = NoCall
    /\ dbcalls = 0

Step(name) ==
    /\ calls' = calls + 1
    /\ op' = IF name = "key" THEN "key" ELSE "call"
    /\ called' = called \cup {name}

Select ==
    \E a \in SelectArgs :
        /\ Step("select")
        /\ cols' = SelectorAdd(cols, a.cols, a.alias)
        /\ UNCHANGED <<table, joins, clauses, params, orders, limits, items,
                       ret, nwhere, nset, setKeys, keyOrder, joinLog, lastLimit, nlimit>>

Join ==
    \E a \in JoinArgs :
        /\ Step("join")
        /\ joins' = JoinerAdd(joins, a.tbl, JoinOn, a.outer)
        /\ joinLog' = Append(joinLog, a)
        /\ UNCHANGED <<table, cols, clauses, params, orders, limits, items,
                       ret, nwhere, nset, setKeys, keyOrder, lastLimit, nlimit>>

\* Clauser.add on the builder; a list returned by an earlier select or delete
\* assembly is the Clauser's params object and sees the extension
ClauserAdd(clause, newparams, is_or) ==
    /\ clauses' = ClauserAddClauses(clauses, clause, is_or)
    /\ params' = ClauserAddParams(params, newparams)
    /\ ret' = IF ret.aliased THEN [ret EXCEPT !.params = params'] ELSE ret
    /\ nwhere' = nwhere + 1

Where ==
    \E a \in WhereArgs :
        /\ Step("where")
        /\ ClauserAdd(a.clause, a.params, a.is_or)
        /\ UNCHANGED <<table, cols, joins, orders, limits, items, nset, setKeys, keyOrder, joinLog, lastLimit, nlimit>>

Key_on_table_name ==
    \E val \in KeyArgs :
        /\ Step("key")
        /\ ClauserAdd(table.name \o <<" ", "=", " ", "?">>, Scalar(val), FALSE)
        /\ UNCHANGED <<table, cols, joins, orders, limits, items, nset, setKeys, keyOrder, joinLog, lastLimit, nlimit>>

Key ==
    \E val \in KeyArgs :
        /\ Step("key")
        /\ ClauserAdd(table.pk \o <<" ", "=", " ", "?">>, Scalar(val), FALSE)
        /\ UNCHANGED <<table, cols, joins, orders, limits, items, nset, setKeys, keyOrder, joinLog, lastLimit, nlimit>>

Order ==
    \E o \in OrderArgs :
        /\ Step("order")
        /\ orders' = OrdererAdd(orders, o)
        /\ UNCHANGED <<table, cols, joins, clauses, params, limits, items,
                       ret, nwhere, nset, setKeys, keyOrder, joinLog, lastLimit, nlimit>>

Limit ==
    \E l \in LimitArgs :
        /\ Step("limit")
        /\ limits' = LimiterAdd(limits, l)
        /\ lastLimit' = IF l.list THEN l.val ELSE << l.val >>
        /\ nlimit' = nlimit + 1
        /\ UNCHANGED <<table, cols, joins, clauses, params, orders, items,
                       ret, nwhere, nset, setKeys, keyOrder, joinLog>>

Set ==
    \E key \in Keys, value \in Values, pos \in 1..(Len(items) + 1) :
        /\ Step("set")
        /\ items' = SetterAdd(items, key, value, pos)
        /\ nset' = nset + 1
        /\ setKeys' = setKeys \cup {key}
        /\ keyOrder' = IF key \in setKeys THEN keyOrder ELSE Append(keyOrder, key)
        /\ UNCHANGED <<table, cols, joins, clauses, params, orders, limits,
                       ret, nwhere, joinLog, lastLimit, nlimit>>

Assemble_normalizing_in_place(mode) ==
    /\ calls' = calls + 1
    /\ called' = called \cup {"assemble"}
    /\ op' = IF op \in {"assemble", "reassemble"} /\ ret.mode = mode
             THEN "reassemble" ELSE "assemble"
    /\ ret' = assemble(Qry, mode)
    /\ params' = IF mode = "update" THEN _list_null(params) ELSE params
    /\ UNCHANGED <<table, cols, joins, clauses, orders, limits, items,
                   nwhere, nset, setKeys, keyOrder, joinLog, lastLimit, nlimit>>

Assemble(mode) ==
    /\ calls' = calls + 1
    /\ called' = called \cup {"assemble"}
    /\ op' = IF op \in {"assemble", "reassemble"} /\ ret.mode = mode
             THEN "reassemble" ELSE "assemble"
    /\ ret' = assemble(Qry, mode)
    /\ UNCHANGED <<table, cols, joins, clauses, params, orders, limits, items,
                   nwhere, nset, setKeys, keyOrder, joinLog, lastLimit, nlimit>>

AssembleAny == \E mode \in ModeArgs : Assemble(mode)

\* the caller makes at most MaxCalls calls on the builder
More == calls < MaxCalls

Next ==
    \/ More /\ Select /\ UNCHANGED dbvars
    \/ More /\ Join /\ UNCHANGED dbvars
    \/ More /\ Where /\ UNCHANGED dbvars
    \/ More /\ Key /\ UNCHANGED dbvars
    \/ More /\ Order /\ UNCHANGED dbvars
    \/ More /\ Limit /\ UNCHANGED dbvars
    \/ More /\ Set /\ UNCHANGED dbvars
    \/ More /\ AssembleAny /\ UNCHANGED dbvars

Spec == Init /\ [][Next]_vars

\* the select statement alone, deep enough for every section to be present
MoreSelect == calls < MaxSelectCalls

NextSelect ==
    \/ MoreSelect /\ Select /\ UNCHANGED dbvars
    \/ MoreSelect /\ Join /\ UNCHANGED dbvars
    \/ MoreSelect /\ Where /\ UNCHANGED dbvars
    \/ MoreSelect /\ Order /\ UNCHANGED dbvars
    \/ MoreSelect /\ Limit /\ UNCHANGED dbvars
    \/ MoreSelect /\ Assemble("select") /\ UNCHANGED dbvars

SpecSelect == Init /\ [][NextSelect]_vars

\* the Database alone: queries interleaved with close, commit and rollback
MoreDb == dbcalls < MaxDbCalls

NextDb ==
    \/ MoreDb /\ Query /\ UNCHANGED qvars
    \/ MoreDb /\ Close /\ UNCHANGED qvars
    \/ MoreDb /\ Commit /\ UNCHANGED qvars
    \/ MoreDb /\ Rollback /\ UNCHANGED qvars

SpecDb == Init /\ [][NextDb]_vars

(* --------------------- reading an assembled statement ------------------ *)
Assembled == op \in {"assemble", "reassemble"}
Returned(mode) == Assembled /\ ret.status = "returned" /\ ret.mode = mode

Count(s, a) == Cardinality({ i \in 1..Len(s) : s[i] = a })

\* index of the first atom a of s, 0 when there is none
IndexOf(s, a) ==
    IF \E i \in 1..Len(s) : s[i] = a
    THEN CHOOSE i \in 1..Len(s) : s[i] = a /\ \A j \in 1..(i - 1) : s[j] # a
    ELSE 0

After(s, a) == SubSeq(s, IndexOf(s, a) + 1, Len(s))
Before(s, a) == SubSeq(s, 1, IndexOf(s, a) - 1)

\* the text between the first "(" and the first ")" that follows it
Parens(s) == Before(After(s, "("), ")")

\* number of entries of a comma-separated list
ListLen(s) == IF s = <<>> THEN 0 ELSE Count(s, ",") + 1

RECURSIVE Split(_, _)
Split(s, a) ==
    IF IndexOf(s, a) = 0 THEN << s >>
    ELSE << Before(s, a) >> \o Split(After(s, a), a)

RECURSIVE Concat(_)
Concat(ss) == IF ss = <<>> THEN <<>> ELSE Head(ss) \o Concat(Tail(ss))

SetterParams == Concat([i \in 1..Len(items) |-> items[i].expr.params])
Normalized(p) == [i \in 1..Len(p) |-> IF p[i] = "" THEN None ELSE p[i]]
Connectors == { <<"AND">>, <<"OR">> }

(* -------------------------------- claims ------------------------------- *)

\* C1: in an insert statement the number of ? placeholders of the VALUES
\* list equals the number of returned parameters.  The code writes one ? per
\* key whatever the Expr binds, so this fails for an Expr with zero or
\* several params.
C1_PlaceholdersMatchParams ==
    Returned("insert") =>
        Count(After(ret.sql, "VALUES"), "?") = Len(ret.params)

\* C2 as stated: the update parameters are the Setter params followed by the
\* Clauser's params, unchanged.
C2_UpdateParamsAreConcatenation ==
    Returned("update") => ret.params = SetterParams \o params

\* C2 amended: the update parameters are the Setter params in Setter order
\* followed by the Clauser's params in clause order with every empty string
\* replaced by the null marker; the length is the sum of the two counts.
C2_UpdateParamsSetterThenNormalizedClauser ==
    Returned("update") =>
        /\ ret.params = SetterParams \o Normalized(params)
        /\ Len(ret.params) = Len(SetterParams) + Len(params)

C2_Witness ==
    /\ Returned("update")
    /\ Len(SetterParams) >= 1
    /\ \E i \in 1..Len(params) : params[i] = ""
    /\ \E i \in 1..Len(params) : params[i] # ""

\* C3: in an insert statement the column list and the VALUES list have the
\* same number of entries, the number of distinct keys passed to set.
C3_InsertListsMatchDistinctKeys ==
    Returned("insert") =>
        /\ ListLen(Parens(ret.sql)) = Cardinality(setKeys)
        /\ ListLen(Parens(After(ret.sql, "VALUES"))) = Cardinality(setKeys)

C3_Witness ==
    /\ Returned("insert")
    /\ Cardinality(setKeys) = 2
    /\ nset = 3

\* C4: an assemble call changes nothing of the builder, and an assemble that
\* directly follows an assemble of the same mode returns the same sql and
\* params.
C4_AssembleIsSideEffectFree ==
    [][ /\ op' \in {"assemble", "reassemble"} /\ calls' # calls
            => UNCHANGED builder
        /\ op' = "reassemble" /\ calls' # calls
            => /\ ret'.status = ret.status
               /\ ret'.sql = ret.sql
               /\ ret'.params = ret.params ]_vars

C4_Witness ==
    /\ op = "reassemble"
    /\ ret.status = "returned"
    /\ ret.mode = "update"
    /\ items # <<>>
    /\ \E i \in 1..Len(params) : params[i] = ""

\* C5: the clause list holds one connector between any two clauses and none
\* elsewhere: with n >= 1 calls of Clauser.add it has n clauses and n - 1
\* connectors, at the even positions, and it is empty with n = 0; no
\* connector is among the params.
C5_ConnectorsBetweenClauses ==
    /\ nwhere = 0 => clauses = <<>>
    /\ nwhere >= 1 =>
        /\ Len(clauses) = 2 * nwhere - 1
        /\ Cardinality({ i \in 1..Len(clauses) : clauses[i] \in Connectors }) = nwhere - 1
        /\ \A i \in 1..Len(clauses) : (clauses[i] \in Connectors) <=> (i % 2 = 0)
    /\ \A i \in 1..Len(params) : params[i] \notin { "AND", "OR" }

C5_Witness ==
    /\ nwhere = 3
    /\ "key" \in called
    /\ \E i \in 1..Len(clauses) : clauses[i] = <<"OR">>
    /\ \E i \in 1..Len(clauses) : clauses[i] = <<"AND">>

\* C6: assembling an unrecognized mode raises an "unsupported mode" error
\* without looking up a handler of that name.  The code looks the handler up
\* with getattr and the failure is the lookup's AttributeError.
C6_UnsupportedModeError ==
    (Assembled /\ ret.mode \notin Modes) =>
        /\ ret.status = "raised"
        /\ ret.error = "unsupported mode"
        /\ ret.looked = ""

\* C7: the insert parameters are the Setter params in Setter order with
\* every empty string replaced by the null marker at its position and every
\* other value unchanged; no empty string is returned.
C7_InsertParamsNullNormalized ==
    Returned("insert") =>
        /\ Len(ret.params) = Len(SetterParams)
        /\ \A i \in 1..Len(ret.params) :
              /\ ret.params[i] # ""
              /\ SetterParams[i] = "" => ret.params[i] = None
              /\ SetterParams[i] # "" => ret.params[i] = SetterParams[i]

C7_Witness ==
    /\ Returned("insert")
    /\ Len(items) = 2
    /\ \E i \in 1..Len(ret.params) : ret.params[i] = None
    /\ \E i \in 1..Len(ret.params) : ret.params[i] = "Alice"

\* C8: a select statement of a builder on which select was never called has
\* the column list *; once a column has been added the list has no * and is
\* the added columns in insertion order.
SelectColumns == Before(After(After(ret.sql, "SELECT"), " "), "FROM")

C8_WildcardIffNoColumns ==
    Returned("select") =>
        /\ "select" \notin called => SelectColumns = <<"*", " ">>
        /\ cols # <<>> =>
              /\ Count(SelectColumns, "*") = 0
              /\ Split(Before(SelectColumns, " "), ",") = cols

C8_Witness ==
    /\ Returned("select")
    /\ "select" \notin called
    /\ Cardinality(called) = 4
    /\ SelectColumns = <<"*", " ">>

\* C9: a select statement has its sections in the order SELECT, FROM,
\* joins, WHERE, ORDER BY, LIMIT whatever the order of the calls; the join,
\* WHERE, ORDER BY and LIMIT sections are present exactly when their
\* accumulator is not empty; the params are the Clauser's params.
CommaList(l) == Concat([i \in 1..Len(l) |-> IF i = 1 THEN l[i] ELSE <<",">> \o l[i]])
SpaceList(l) == Concat([i \in 1..Len(l) |-> SP \o l[i]])
Section(keyword, body) == <<" ", keyword>> \o body

\* the positions of the present keywords, in the order the sections must have
KeywordPositions(s) ==
    LET ks == <<"SELECT", "FROM", "JOIN", "WHERE", "ORDER BY", "LIMIT">>
    IN  [i \in 1..Len(ks) |-> IndexOf(s, ks[i])]

C9_SelectSectionsInFixedOrder ==
    Returned("select") =>
        LET s == ret.sql
            at == KeywordPositions(s)
        IN  /\ at[1] = 1 /\ at[2] > 1
            /\ (at[3] > 0) <=> (joins # <<>>)
            /\ (at[4] > 0) <=> (clauses # <<>>)
            /\ (at[5] > 0) <=> (orders # <<>>)
            /\ (at[6] > 0) <=> (limits # <<>>)
            /\ \A i, j \in 1..6 : (i < j /\ at[i] > 0 /\ at[j] > 0) => at[i] < at[j]
            /\ After(s, "FROM") =
                  SP \o identifier(table)
                  \o (IF joins = <<>> THEN <<>> ELSE SpaceList(joins))
                  \o (IF clauses = <<>> THEN <<>>
                      ELSE Section("WHERE", SpaceList(clauses)))
                  \o (IF orders = <<>> THEN <<>>
                      ELSE Section("ORDER BY", SP \o CommaList(orders)))
                  \o (IF limits = <<>> THEN <<>>
                      ELSE Section("LIMIT", SP \o CommaList(limits)))
            /\ ret.params = params

C9_Witness ==
    /\ Returned("select")
    /\ cols # <<>>
    /\ joins # <<>>
    /\ clauses # <<>>
    /\ orders # <<>>
    /\ limits # <<>>
    /\ params = <<"18">>
    /\ called = {"limit", "order", "where", "join", "select", "assemble"}

\* C10: every identifier a join stored is the table name alone when the
\* table has no alias, and otherwise the name, a separator and the alias.
\* The code pads the alias to width 1 only, so name and alias run together.
AllBlank(s) == \A i \in 1..Len(s) : s[i] = " "

NameThenAlias(tbl, ident) ==
    IF tbl.alias = <<>> THEN ident = tbl.name
    ELSE LET n == Len(tbl.name)
             a == strip(tbl.alias)
             m == Len(ident) - Len(a)
         IN  /\ m > n
             /\ SubSeq(ident, 1, n) = tbl.name
             /\ AllBlank(SubSeq(ident, n + 1, m))
             /\ SubSeq(ident, m + 1, Len(ident)) = a

C10_IdentifierSeparatesNameAndAlias ==
    \A k \in 1..Len(joinLog) : NameThenAlias(joinLog[k].tbl, joins[3 * k])

\* C11: a query that fails at any step rolls back once, returns an empty or
\* absent result and raises nothing.  The connection and the cursor are
\* obtained outside the try block, so their failure is raised to the caller
\* without a rollback, and a failed commit leaves the fetched rows in the
\* returned result.
C11_FailedQueryReturnsEmpty ==
    (last.call = "query" /\ last.fail # "none") =>
        /\ last.outcome = "returned"
        /\ last.rollbacks = 1
        /\ last.result.rows = <<>>

\* C12 as stated: the driver's connect is called at most once.
C12_ConnectCalledAtMostOnce == nconnect <= 1

\* C12 amended: once a connect call has succeeded no call connects again and
\* the Database keeps that connection object, also after close; every later
\* query works on it.  A connect call that raised is repeated by the next
\* query.
C12_NoConnectAfterConnected ==
    [][ /\ conId # 0 => (nconnect' = nconnect /\ conId' = conId /\ con' # "None")
        /\ (conId # 0 /\ last'.call = "query" /\ dbcalls' # dbcalls)
              => last'.conUsed = conId ]_vars

C12_Witness ==
    /\ dbcalls = 3
    /\ nconnect = 1
    /\ con = "closed"
    /\ last.call = "query"
    /\ last.conUsed = conId
    /\ ncommit = 1

\* C19: a query that succeeds commits once and does not roll back, a query
\* that fails rolls back once and does not commit, and the cursor the call
\* opened is closed when it returns.  As in C11, a failure to connect or to
\* open the cursor is raised without any rollback.
C19_CommitXorRollback ==
    last.call = "query" =>
        /\ last.fail = "none" => (last.commits = 1 /\ last.rollbacks = 0)
        /\ last.fail # "none" => (last.commits = 0 /\ last.rollbacks = 1)
        /\ last.cursor \in {"none", "closed"}

\* C13: key(v) does what where('<pk> = ?', v) does: it appends the clause
\* <pk> = ?, after an AND exactly when a clause exists already, and appends v
\* to the params; a delete statement is DELETE FROM the table identifier, the
\* joins, and WHERE with the clauses, and its params are the Clauser's.
DeleteText(tbl, j, cl) ==
    <<"DELETE", " ", "FROM", " ">> \o identifier(tbl)
    \o (IF j = <<>> THEN <<>> ELSE SpaceList(j))
    \o (IF cl = <<>> THEN <<>> ELSE Section("WHERE", SpaceList(cl)))

C13_KeyIsWhereOnPrimaryKey ==
    [][ /\ (op' = "key" /\ calls' # calls) =>
              /\ clauses' = clauses
                            \o (IF clauses = <<>> THEN <<>> ELSE << <<"AND">> >>)
                            \o << table.pk \o <<" ", "=", " ", "?">> >>
              /\ \E v \in KeyArgs : params' = Append(params, v)
        /\ (op' \in {"assemble", "reassemble"} /\ ret'.status = "returned"
            /\ ret'.mode = "delete") =>
              /\ ret'.sql = DeleteText(table', joins', clauses')
              /\ ret'.params = params' ]_vars

C13_Witness ==
    /\ Returned("delete")
    /\ "key" \in called
    /\ nwhere = 2
    /\ calls = 3
    /\ clauses[2] = <<"AND">>
    /\ clauses[3] = <<"id", " ", "=", " ", "?">>
    /\ params[2] = "7"

\* C14: the Limiter holds the values of the last limit call only, each as its
\* decimal string, and nothing before the first call; the LIMIT section of a
\* select statement lists exactly these values.
Decimal(n) == CASE n = 0 -> "0" [] n = 5 -> "5" [] n = 10 -> "10"

C14_LimiterKeepsLastCall ==
    /\ Len(limits) = Len(lastLimit)
    /\ \A i \in 1..Len(limits) : limits[i] = << Decimal(lastLimit[i]) >>
    /\ Returned("select") =>
          IF lastLimit = <<>> THEN Count(ret.sql, "LIMIT") = 0
          ELSE After(ret.sql, "LIMIT") =
                  SP \o CommaList([i \in 1..Len(lastLimit) |-> << Decimal(lastLimit[i]) >>])

C14_Witness ==
    /\ Returned("select")
    /\ nlimit = 2
    /\ lastLimit = <<0, 5>>
    /\ After(ret.sql, "LIMIT") = <<" ", "0", ",", "5">>

\* C15: the Setter holds one Expr per distinct key and iterates the keys in
\* the order in which they were first set.  The Setter is a dict of
\* Python 2, whose iteration order follows the hashes of the keys, not the
\* order of insertion.
C15_SetterIteratesInFirstSetOrder ==
    /\ Len(items) = Cardinality(setKeys)
    /\ Len(items) = Len(keyOrder)
    /\ \A i \in 1..Len(items) : items[i].key = keyOrder[i]

\* C16: an update statement returns the Setter params as they were set, empty
\* strings included, followed by the Clauser's params with every empty string
\* replaced by the null marker; select and delete statements return the
\* Clauser's params as they are.
C16_UpdateNormalizesWhereParamsOnly ==
    /\ Returned("update") =>
          LET n == Len(SetterParams)
          IN  /\ Len(ret.params) = n + Len(params)
              /\ \A i \in 1..n : ret.params[i] = SetterParams[i]
              /\ \A i \in 1..Len(params) :
                    ret.params[n + i] = IF params[i] = "" THEN None ELSE params[i]
    /\ (Returned("select") \/ Returned("delete")) =>
          /\ Len(ret.params) = Len(params)
          /\ \A i \in 1..Len(params) : ret.params[i] = params[i]

C16_Witness ==
    /\ Returned("update")
    /\ \E i \in 1..Len(SetterParams) : SetterParams[i] = "" /\ ret.params[i] = ""
    /\ \E i \in 1..Len(params) :
          params[i] = "" /\ ret.params[Len(SetterParams) + i] = None

\* C17: the insert statement of a builder is also the insert statement of
\* every builder with the same table name and the same Setter, whatever its
\* table alias, columns, joins, clauses, orders and limits.
OtherClausers == { [clauses |-> <<>>, params |-> <<>>],
                   [clauses |-> << <<"age", " ", ">", " ", "?">> >>, params |-> <<"18">>] }

BuildersWithSameSetter ==
    { [Qry EXCEPT !.table.alias = a, !.cols = c, !.joins = j,
                  !.clauses = w.clauses, !.params = w.params,
                  !.orders = o, !.limits = l] :
        a \in { <<>>, <<"u">>, <<"x">> },
        c \in { <<>>, << <<"id">> >> },
        j \in { <<>>, << <<"INNER">>, <<"JOIN">>, <<"orders">> >> },
        w \in OtherClausers,
        o \in { <<>>, << <<"name">> >> },
        l \in { <<>>, << <<"10">> >> } }

C17_InsertDependsOnNameAndSetterOnly ==
    Returned("insert") =>
        \A q \in BuildersWithSameSetter :
            LET r == assemble(q, "insert")
            IN  r.sql = ret.sql /\ r.params = ret.params

C17_Witness ==
    /\ Returned("insert")
    /\ table.alias # <<>>
    /\ Len(items) = 2
    /\ clauses # <<>>

\* C18: the Joiner holds three tokens per join call, in call order: OUTER or
\* INNER, JOIN, and the identifier of the joined table; the join condition
\* is in no assembled statement.
C18_JoinerHoldsThreeTokensPerJoin ==
    /\ Len(joins) = 3 * Len(joinLog)
    /\ \A k \in 1..Len(joinLog) :
          /\ joins[3 * k - 2] = IF joinLog[k].outer THEN <<"OUTER">> ELSE <<"INNER">>
          /\ joins[3 * k - 1] = <<"JOIN">>
          /\ joins[3 * k] = identifier(joinLog[k].tbl)
    /\ ret.status = "returned" =>
          \A i \in 1..Len(JoinOn) :
              JoinOn[i] \in {" ", "="} \/ Count(ret.sql, JoinOn[i]) = 0

C18_Witness ==
    /\ Returned("select")
    /\ Len(joinLog) = 2
    /\ joinLog[1].outer
    /\ ~joinLog[2].outer
    /\ Count(ret.sql, "JOIN") = 2

\* C20: the params an assembly returned do not change when the builder is
\* changed afterwards.  A select or delete assembly returns the Clauser's own
\* list, so a later where or key call extends the list the caller holds.
C20_ReturnedParamsAreSnapshot ==
    [][ (ret.status = "returned" /\ op' \in {"call", "key"} /\ calls' # calls)
            => ret'.params = ret.params ]_vars

====
